---- MODULE Spec2Model ----
(***************************************************************************)
(* Model of pkg/ap/jsoniter.go: the additional-properties extension.       *)
(*                                                                         *)
(* Two specifications share the module:                                    *)
(*   Spec       the descriptor registry (UpdateStructDescriptor,           *)
(*              DecorateDecoder, DecorateEncoder) used by several callers  *)
(*   CodecSpec  one apStructDecoder / apStructEncoder pair built from a    *)
(*              registered type, decoding objects into and encoding an     *)
(*              instance                                                   *)
(***************************************************************************)
EXTENDS Integers, Sequences, FiniteSets, TLC

VARIABLES
    decl,          \* reflection: type name -> its ordered struct fields
    heap,          \* StructDescriptor objects by address
    Desc,          \* e.Desc: type name -> descriptor address (NoDesc = no entry)
    APBinding,     \* e.APBinding: type name -> Absent | Nil | binding
    Mutex,         \* e.Mutex: 0 when free, else the caller holding it
    pc,            \* each caller's position
    local,         \* each caller's typ and desc while in UpdateStructDescriptor
    removalPasses, \* history: how often the scan of lines 67-75 ran per type
    cpc,           \* codec: position of the Decode / Encode call
    iter,          \* codec: the key/value pairs the iterator has not read yet
    inst,          \* codec: the instance (typed field storage and the ap field)
    ap,            \* codec: Decode's local map `ap`
    read,          \* codec history: the pairs Decode's loop body handled
    input,         \* codec history: the object handed to the last Decode
    stream,        \* codec: the events Encode wrote
    todo,          \* codec: keys of the map Encode is ranging over, not yet visited
    first          \* codec: Encode's local `first`

regVars == <<decl, heap, Desc, APBinding, Mutex, pc, local, removalPasses>>
codecVars == <<cpc, iter, inst, ap, read, input, stream, todo, first>>
vars == <<decl, heap, Desc, APBinding, Mutex, pc, local, removalPasses,
          cpc, iter, inst, ap, read, input, stream, todo, first>>

(***************************************************************************)
(* Bounds                                                                  *)
(***************************************************************************)
MaxFields == 3      \* longest declared field list of type T
NumCallers == 2     \* concurrent callers of the extension
MaxPairs == 2       \* most key/value pairs in a decoded object

Callers == 1..NumCallers

(***************************************************************************)
(* Go values                                                               *)
(***************************************************************************)
Absent == [kind |-> "absent"]      \* no entry in a Go map
Nil == [kind |-> "nil"]            \* a nil pointer / nil map
NoDesc == 0

\* m[k] on a Go map: the zero value when the key is missing
MapGet(m, k) == IF m[k] = Absent THEN Nil ELSE m[k]
\* _, ok := m[k]
MapHas(m, k) == m[k] # Absent

\* strings.ToLower on the strings the model uses
ToLower(s) ==
    CASE s = "A" -> "a"
      [] s = "B" -> "b"
      [] s = "U" -> "u"
      [] OTHER -> s

RECURSIVE SeqsUpTo(_, _)
SeqsUpTo(S, n) ==
    IF n = 0 THEN {<<>>}
    ELSE LET shorter == SeqsUpTo(S, n - 1)
         IN shorter \cup {Append(s, x) : s \in {t \in shorter : Len(t) = n - 1}, x \in S}

(***************************************************************************)
(* Reflection facility: struct types and their fields                      *)
(***************************************************************************)
StructTypes == {"E1", "E2", "T"}
TypeNames == StructTypes \cup {"string"}

\* typ.Kind() == reflect.Struct
IsStruct(t) == t \in StructTypes

\* a named field with a json tag `name[,qualifier...]`
Tagged(name, quals) ==
    [Name |-> name, Anonymous |-> FALSE, Type |-> "string",
     Tag |-> [ok |-> TRUE, parts |-> <<name>> \o quals]]
\* a named field with no json tag
Untagged(name) ==
    [Name |-> name, Anonymous |-> FALSE, Type |-> "string",
     Tag |-> [ok |-> FALSE, parts |-> <<>>]]
\* an anonymous (embedded) field of struct type t
Embedded(t) ==
    [Name |-> t, Anonymous |-> TRUE, Type |-> t,
     Tag |-> [ok |-> FALSE, parts |-> <<>>]]

\* jsonTag, lines 214-229: <<name, qualifiers>>; qualifiers as the set of the
\* keys mapped to true
jsonTag(f) ==
    IF ~f.Tag.ok THEN <<f.Name, {}>>
    ELSE LET parts == f.Tag.parts
             name == IF parts[1] = "" THEN f.Name ELSE parts[1]
         IN <<name, {parts[i] : i \in 2..Len(parts)}>>

\* The binding the host library makes for field i of type t: its decode and
\* encode names are the tag name, its accessor is (t, i).
BindingOf(t, i, f) ==
    [kind |-> "binding", owner |-> t, idx |-> i,
     FromNames |-> <<jsonTag(f)[1]>>, ToNames |-> <<jsonTag(f)[1]>>]

RECURSIVE OwnBindings(_, _, _)
OwnBindings(t, fs, i) ==
    IF i > Len(fs) THEN <<>>
    ELSE IF fs[i].Anonymous THEN OwnBindings(t, fs, i + 1)
    ELSE <<BindingOf(t, i, fs[i])>> \o OwnBindings(t, fs, i + 1)

\* desc.Fields as the host hands it to UpdateStructDescriptor for type t
RawFields(d, t) == OwnBindings(t, d[t], 1)

(***************************************************************************)
(* UpdateStructDescriptor, lines 51-76                                     *)
(***************************************************************************)
\* line 68
IsWildcard(binding) == Len(binding.FromNames) = 1 /\ binding.FromNames[1] = "*"

\* index of the first wildcard binding, 0 when there is none (the loop of
\* lines 67-75 breaks at the first match)
FirstWildcard(fields) ==
    IF \E i \in DOMAIN fields : IsWildcard(fields[i])
    THEN CHOOSE i \in DOMAIN fields :
            IsWildcard(fields[i]) /\ \A j \in 1..(i - 1) : ~IsWildcard(fields[j])
    ELSE 0

\* line 70: append(desc.Fields[:idx], desc.Fields[idx+1:]...)
RemoveAt(fields, idx) ==
    SubSeq(fields, 1, idx - 1) \o SubSeq(fields, idx + 1, Len(fields))

\* a scan that does not stop at the first match
ScanFieldsEveryWildcard(fields) ==
    LET Typed(b) == ~IsWildcard(b) IN SelectSeq(fields, Typed)

\* the loop of lines 67-75: the field list it leaves
ScanFields(fields) ==
    IF FirstWildcard(fields) = 0 THEN fields
    ELSE RemoveAt(fields, FirstWildcard(fields))

\* the loop of lines 67-75: what it stores in e.APBinding[typ]
ScanAPBinding(old, fields) ==
    IF FirstWildcard(fields) = 0 THEN old ELSE fields[FirstWildcard(fields)]

\* a Lock that excludes no one
CanLockRacy == TRUE

\* e.Mutex.Lock() returns only when no one holds the mutex
CanLock == Mutex = 0

DescIds == 1..(Cardinality(StructTypes) + NumCallers)
Free == [kind |-> "free"]
LowestFree == CHOOSE d \in DescIds : heap[d] = Free /\ \A e \in 1..(d - 1) : heap[e] # Free

\* A descriptor nothing refers to any more is collected.
Collect(h, descMap, locals, pcs) ==
    [d \in DescIds |->
        IF \/ \E t \in StructTypes : descMap[t] = d
           \/ \E p \in Callers : pcs[p] # "idle" /\ locals[p].desc = d
        THEN h[d] ELSE Free]

NoLocal == [typ |-> "", desc |-> NoDesc]

\* lines 54-58: the caller enters with a descriptor for typ (one the host just
\* built, or the address of one it built before) and takes the mutex
UpdateStructDescriptorLock(p) ==
    /\ pc[p] = "idle"
    /\ CanLock
    /\ \E typ \in StructTypes :
         \/ /\ \E d \in DescIds : heap[d] = Free
            /\ heap' = [heap EXCEPT ![LowestFree] =
                           [Type |-> typ, Fields |-> RawFields(decl, typ)]]
            /\ local' = [local EXCEPT ![p] = [typ |-> typ, desc |-> LowestFree]]
         \/ \E d \in DescIds :
              /\ heap[d] # Free
              /\ heap[d].Type = typ
              /\ heap' = heap
              /\ local' = [local EXCEPT ![p] = [typ |-> typ, desc |-> d]]
    /\ Mutex' = p
    /\ pc' = [pc EXCEPT ![p] = "usd_check"]
    /\ UNCHANGED <<decl, Desc, APBinding, removalPasses>>
    /\ UNCHANGED codecVars

\* lines 59-62: the short-circuit (the deferred Unlock runs on return)
UpdateStructDescriptorCheck(p) ==
    /\ pc[p] = "usd_check"
    /\ IF Desc[local[p].typ] # NoDesc
       THEN /\ pc' = [pc EXCEPT ![p] = "idle"]
            /\ local' = [local EXCEPT ![p] = NoLocal]
            /\ Mutex' = IF Mutex = p THEN 0 ELSE Mutex
            /\ heap' = Collect(heap, Desc, local', pc')
       ELSE /\ pc' = [pc EXCEPT ![p] = "usd_build"]
            /\ UNCHANGED <<local, Mutex, heap>>
    /\ UNCHANGED <<decl, Desc, APBinding, removalPasses>>
    /\ UNCHANGED codecVars

\* lines 64-76: store the descriptor, scan for the wildcard, unlock
UpdateStructDescriptorBuild(p) ==
    /\ pc[p] = "usd_build"
    /\ LET typ == local[p].typ
           d == local[p].desc
           fields == heap[d].Fields
       IN /\ Desc' = [Desc EXCEPT ![typ] = d]
          /\ APBinding' = [APBinding EXCEPT ![typ] = ScanAPBinding(@, fields)]
          /\ removalPasses' = [removalPasses EXCEPT ![typ] = @ + 1]
          /\ pc' = [pc EXCEPT ![p] = "idle"]
          /\ local' = [local EXCEPT ![p] = NoLocal]
          /\ Mutex' = IF Mutex = p THEN 0 ELSE Mutex
          /\ heap' = Collect([heap EXCEPT ![d].Fields = ScanFields(fields)],
                             Desc', local', pc')
    /\ UNCHANGED decl
    /\ UNCHANGED codecVars

(***************************************************************************)
(* Go maps with string keys, as sets of <<key, value>> pairs               *)
(***************************************************************************)
EmptyMap == {}
MapKeys(m) == {e[1] : e \in m}
MapPut(m, k, v) == {e \in m : e[1] # k} \cup {<<k, v>>}
\* m[k], with the zero value for a missing key
MapLookup(m, k, zero) ==
    IF k \in MapKeys(m) THEN (CHOOSE e \in m : e[1] = k)[2] ELSE zero
\* for k := range src { dst[k] = src[k] }
MapPutAll(dst, src) == {e \in dst : e[1] \notin MapKeys(src)} \cup src

(***************************************************************************)
(* embeddedAPBinding, lines 284-301                                        *)
(***************************************************************************)
RECURSIVE embeddedScan(_, _, _)
embeddedScan(apb, fs, i) ==
    IF i > Len(fs) THEN Nil
    ELSE IF fs[i].Anonymous /\ MapHas(apb, fs[i].Type) THEN apb[fs[i].Type]
    ELSE embeddedScan(apb, fs, i + 1)

embeddedAPBinding(apb, d, typ) ==
    IF ~IsStruct(typ) THEN Nil ELSE embeddedScan(apb, d[typ], 1)

\* lines 93-95 and 168-170: promote an embedded type's binding
Promote(apb, descMap, h, d, name) ==
    IF MapGet(apb, name) = Nil /\ descMap[name] # NoDesc
    THEN [apb EXCEPT ![name] = embeddedAPBinding(apb, d, h[descMap[name]].Type)]
    ELSE apb

(***************************************************************************)
(* DecorateDecoder, lines 78-111                                           *)
(***************************************************************************)
\* lines 103-108: the lookup table, each binding under its decode name and
\* under the lowercased decode name, later bindings overwriting earlier ones
RECURSIVE DecoderFields(_, _, _)
DecoderFields(bindings, i, fields) ==
    IF i > Len(bindings) THEN fields
    ELSE LET fromName == bindings[i].FromNames[1]
         IN DecoderFields(bindings, i + 1,
                MapPut(MapPut(fields, fromName, bindings[i]),
                       ToLower(fromName), bindings[i]))

Undecorated(op, typ) ==
    [op |-> op, typ |-> typ, decorated |-> FALSE, Fields |-> EmptyMap,
     APBinding |-> Nil, OmitEmpties |-> EmptyMap]

\* line 110
apStructDecoder(typ, fields, apBinding) ==
    [op |-> "DecorateDecoder", typ |-> typ, decorated |-> TRUE, Fields |-> fields,
     APBinding |-> apBinding, OmitEmpties |-> EmptyMap]

DecoderFor(apb, descMap, h, name) ==
    IF MapGet(apb, name) = Nil THEN Undecorated("DecorateDecoder", name)
    ELSE apStructDecoder(name, DecoderFields(h[descMap[name]].Fields, 1, EmptyMap),
                         apb[name])

DecorateDecoder(p) ==
    /\ pc[p] = "idle"
    /\ \E typ \in TypeNames :
         IF ~IsStruct(typ)
         THEN UNCHANGED APBinding
         ELSE /\ CanLock
              /\ APBinding' = Promote(APBinding, Desc, heap, decl, typ)
    /\ UNCHANGED <<decl, heap, Desc, Mutex, pc, local, removalPasses>>
    /\ UNCHANGED codecVars

(***************************************************************************)
(* DecorateEncoder, lines 153-193, and omitEmpties, lines 195-212          *)
(***************************************************************************)
\* lines 184-188: the table of bindings by encode name
RECURSIVE EncoderFields(_, _, _)
EncoderFields(bindings, i, fields) ==
    IF i > Len(bindings) THEN fields
    ELSE EncoderFields(bindings, i + 1,
                       MapPut(fields, bindings[i].ToNames[1], bindings[i]))

RECURSIVE omitEmptiesFrom(_, _, _, _)
omitEmptiesFrom(d, fs, i, empties) ==
    IF i > Len(fs) THEN empties
    ELSE IF fs[i].Anonymous
    THEN omitEmptiesFrom(d, fs, i + 1,
             MapPutAll(empties, omitEmptiesFrom(d, d[fs[i].Type], 1, EmptyMap)))
    ELSE omitEmptiesFrom(d, fs, i + 1,
             MapPut(empties, jsonTag(fs[i])[1], "omitempty" \in jsonTag(fs[i])[2]))

omitEmpties(d, typ) == omitEmptiesFrom(d, d[typ], 1, EmptyMap)

\* line 192
apStructEncoder(typ, fields, apBinding, empties) ==
    [op |-> "DecorateEncoder", typ |-> typ, decorated |-> TRUE, Fields |-> fields,
     APBinding |-> apBinding, OmitEmpties |-> empties]

EncoderFor(apb, descMap, h, d, name) ==
    IF ~MapHas(apb, name) THEN Undecorated("DecorateEncoder", name)
    ELSE IF apb[name] = Nil THEN Undecorated("DecorateEncoder", name)
    ELSE apStructEncoder(name, EncoderFields(h[descMap[name]].Fields, 1, EmptyMap),
                         apb[name], omitEmpties(d, name))

DecorateEncoder(p) ==
    /\ pc[p] = "idle"
    /\ \E typ \in TypeNames :
         IF ~IsStruct(typ)
         THEN UNCHANGED APBinding
         ELSE /\ CanLock
              /\ APBinding' = Promote(APBinding, Desc, heap, decl, typ)
    /\ UNCHANGED <<decl, heap, Desc, Mutex, pc, local, removalPasses>>
    /\ UNCHANGED codecVars

(***************************************************************************)
(* The registry specification                                              *)
(***************************************************************************)
\* what a field of T may be: a wildcard field, a typed field, an embedded type
Symbol(x) ==
    CASE x = "E1" -> Embedded("E1")
      [] x = "E2" -> Embedded("E2")
      [] OTHER -> Tagged(x, <<>>)

Layouts ==
    {[t \in StructTypes |->
        CASE t = "T" -> [i \in DOMAIN s |-> Symbol(s[i])]
          [] t = "E1" -> <<Symbol(e)>>
          [] OTHER -> <<Symbol("*")>>] :
     s \in SeqsUpTo({"*", "a", "E1", "E2"}, MaxFields), e \in {"*", "a"}}

CodecIdle ==
    /\ cpc = "off"
    /\ iter = <<>>
    /\ inst = [typed |-> EmptyMap, ap |-> [nil |-> TRUE, m |-> EmptyMap]]
    /\ ap = EmptyMap
    /\ read = <<>>
    /\ input = [given |-> FALSE, obj |-> <<>>]
    /\ stream = <<>>
    /\ todo = {}
    /\ first = TRUE

\* newAdditionalPropertiesExtension, lines 23-30
Init ==
    /\ decl \in Layouts
    /\ heap = [d \in DescIds |-> Free]
    /\ Desc = [t \in StructTypes |-> NoDesc]
    /\ APBinding = [t \in StructTypes |-> Absent]
    /\ Mutex = 0
    /\ pc = [p \in Callers |-> "idle"]
    /\ local = [p \in Callers |-> NoLocal]
    /\ removalPasses = [t \in StructTypes |-> 0]
    /\ CodecIdle

Next ==
    \E p \in Callers :
        \/ UpdateStructDescriptorLock(p)
        \/ UpdateStructDescriptorCheck(p)
        \/ UpdateStructDescriptorBuild(p)
        \/ DecorateDecoder(p)
        \/ DecorateEncoder(p)

Spec == Init /\ [][Next]_vars

(***************************************************************************)
(* The codec: one registered type T, its decorators and one instance       *)
(***************************************************************************)
Keys == {"", "a", "A", "b", "u"}
Values == {"0", "1"}            \* "0" is the empty (zero) value of a typed field
Objects == SeqsUpTo(Keys \X Values, MaxPairs)

\* a named field tagged `json:",qualifier..."`: the tag gives no name
TaggedNoName(goName, quals) ==
    [Name |-> goName, Anonymous |-> FALSE, Type |-> "string",
     Tag |-> [ok |-> TRUE, parts |-> <<"">> \o quals]]

Wild == Tagged("*", <<>>)

CodecDecl(tFields) ==
    [t \in StructTypes |->
        CASE t = "T" -> tFields
          [] t = "E1" -> <<Tagged("e", <<"omitempty">>), Tagged("f", <<>>)>>
          [] OTHER -> <<Wild>>]

CodecLayouts ==
    { CodecDecl(<<Wild>>),
      CodecDecl(<<Tagged("a", <<>>), Wild>>),
      CodecDecl(<<Tagged("a", <<>>), Tagged("A", <<>>), Wild>>),
      CodecDecl(<<Tagged("A", <<>>), Wild, Tagged("a", <<"omitempty">>)>>),
      CodecDecl(<<TaggedNoName("b", <<"omitempty">>), Wild, Untagged("a")>>),
      CodecDecl(<<Embedded("E1"), Tagged("a", <<"omitempty", "string">>), Wild>>),
      CodecDecl(<<Tagged("b", <<"omitempty">>), Wild>>),
      CodecDecl(<<Tagged("e", <<>>), Embedded("E1"), Wild>>),
      CodecDecl(<<Embedded("E2"), Tagged("b", <<>>)>>) }

\* The host completes a registered descriptor with the typed bindings of the
\* embedded types, in declaration order.
RECURSIVE Flatten(_, _, _, _)
Flatten(d, t, fs, i) ==
    IF i > Len(fs) THEN <<>>
    ELSE IF fs[i].Anonymous
    THEN ScanFields(RawFields(d, fs[i].Type)) \o Flatten(d, t, fs, i + 1)
    ELSE <<BindingOf(t, i, fs[i])>> \o Flatten(d, t, fs, i + 1)

MergedFields(d, t) ==
    LET own == ScanAPBinding(Nil, RawFields(d, t))
        Keep(b) == b # own
    IN SelectSeq(Flatten(d, t, d[t], 1), Keep)

\* e.APBinding once every type went through UpdateStructDescriptor
RegisteredAPBinding(d) ==
    [t \in StructTypes |-> ScanAPBinding(Absent, RawFields(d, t))]

TypeAddr(t) == CASE t = "T" -> 1 [] t = "E1" -> 2 [] OTHER -> 3

\* the decorators DecorateDecoder and DecorateEncoder returned for T
decoder == DecoderFor(APBinding, Desc, heap, "T")
encoder == EncoderFor(APBinding, Desc, heap, decl, "T")

\* binding.Field addresses the field's storage on the instance behind ptr. A
\* promoted binding is the embedded type's own, so the layouts embed the type
\* it comes from as their first field, where both addresses agree.
Accessor(binding) == <<binding.owner, binding.idx>>
NilMap == [nil |-> TRUE, m |-> EmptyMap]
MakeMap(m) == [nil |-> FALSE, m |-> m]

TypedFields == heap[Desc["T"]].Fields

Filled(v) == {<<Accessor(TypedFields[i]), v>> : i \in DOMAIN TypedFields}
\* every second field empty
Alternating ==
    {<<Accessor(TypedFields[i]), IF i % 2 = 1 THEN "1" ELSE "0">> : i \in DOMAIN TypedFields}

NoInput == [given |-> FALSE, obj |-> <<>>]

CodecInit ==
    /\ decl \in CodecLayouts
    /\ Desc = [t \in StructTypes |-> TypeAddr(t)]
    /\ heap = [a \in DescIds |->
                 IF \E t \in StructTypes : TypeAddr(t) = a
                 THEN LET t == CHOOSE t \in StructTypes : TypeAddr(t) = a
                      IN [Type |-> t, Fields |-> MergedFields(decl, t)]
                 ELSE Free]
    /\ APBinding = Promote(RegisteredAPBinding(decl), Desc, heap, decl, "T")
    /\ Mutex = 0
    /\ pc = [p \in Callers |-> "idle"]
    /\ local = [p \in Callers |-> NoLocal]
    /\ removalPasses = [t \in StructTypes |-> 1]
    /\ cpc = "ready"
    /\ iter = <<>>
    /\ inst \in {[typed |-> Filled("0"), ap |-> NilMap],
                 [typed |-> Filled("1"), ap |-> MakeMap(EmptyMap)],
                 [typed |-> Filled("1"), ap |-> MakeMap({<<"z", "1">>})],
                 [typed |-> Alternating, ap |-> MakeMap({<<"z", "0">>})]}
    /\ ap = EmptyMap
    /\ read = <<>>
    /\ input = NoInput
    /\ stream = <<>>
    /\ todo = {}
    /\ first = TRUE

(***************************************************************************)
(* apStructDecoder.Decode, lines 118-151                                   *)
(***************************************************************************)
\* lines 120-123: a new map, stored in the instance's ap field at once
DecodeBegin ==
    /\ cpc = "ready"
    /\ \E obj \in Objects :
         /\ input' = [given |-> TRUE, obj |-> obj]
         /\ iter' = obj
    /\ ap' = EmptyMap
    /\ inst' = IF decoder.APBinding # Nil
               THEN [inst EXCEPT !.ap = MakeMap(EmptyMap)] ELSE inst
    /\ read' = <<>>
    /\ cpc' = "decoding"
    /\ UNCHANGED <<stream, todo, first>>
    /\ UNCHANGED regVars

\* iter.ReadObject(): the next key, "" when the object has ended. iter keeps
\* the pairs whose value has not been read.
ReadObject(it) == IF it = <<>> THEN "" ELSE Head(it)[1]

\* lines 131-144: the binding a key is decoded through, Nil for an unknown key
LookupBinding(fields, key) ==
    IF MapLookup(fields, key, Nil) # Nil THEN MapLookup(fields, key, Nil)
    ELSE MapLookup(fields, ToLower(key), Nil)

\* one iteration of the loop of lines 125-150
DecodeStep ==
    /\ cpc = "decoding"
    /\ LET key == ReadObject(iter)
       IN IF key = ""
          THEN /\ cpc' = "decoded"
               /\ UNCHANGED <<iter, inst, ap, read>>
          ELSE LET val == Head(iter)[2]
                   binding == LookupBinding(decoder.Fields, key)
               IN /\ iter' = Tail(iter)
                  /\ cpc' = cpc
                  /\ IF binding # Nil
                     THEN /\ inst' = [inst EXCEPT !.typed =
                                         MapPut(@, Accessor(binding), val)]
                          /\ ap' = ap
                          /\ read' = Append(read, [key |-> key, val |-> val,
                                                   to |-> Accessor(binding)])
                     ELSE /\ ap' = MapPut(ap, key, val)
                          \* the instance's field holds this very map
                          /\ inst' = IF decoder.APBinding # Nil
                                     THEN [inst EXCEPT !.ap = MakeMap(ap')] ELSE inst
                          /\ read' = Append(read, [key |-> key, val |-> val,
                                                   to |-> <<"ap", 0>>])
    /\ UNCHANGED <<input, stream, todo, first>>
    /\ UNCHANGED regVars

(***************************************************************************)
(* apStructEncoder.Encode, lines 237-278                                   *)
(***************************************************************************)
Ev(e, k, v) == [ev |-> e, key |-> k, val |-> v]

\* a separator before every pair
NeedsMoreAlways(isFirst) == TRUE

\* lines 251-253 and 270-272
NeedsMore(isFirst) == ~isFirst

\* WriteMore when needed, then WriteObjectField and the value
WritePair(isFirst, kind, k, v) ==
    (IF NeedsMore(isFirst) THEN <<Ev("more", "", "")>> ELSE <<>>)
        \o <<Ev("key", k, ""), Ev(kind, k, v)>>

\* binding.Encoder.IsEmpty(ptr)
IsEmpty(instance, binding) == MapLookup(instance.typed, Accessor(binding), "0") = "0"

\* lines 241-244
EncodeBegin ==
    /\ cpc \in {"ready", "decoded"}
    /\ encoder.decorated
    /\ stream' = <<Ev("start", "", "")>>
    /\ first' = TRUE
    /\ todo' = MapKeys(encoder.Fields)
    /\ cpc' = "enc_fields"
    /\ UNCHANGED <<iter, inst, ap, read, input>>
    /\ UNCHANGED regVars

\* one iteration of the loop of lines 245-257; range over a Go map visits the
\* keys in an order the language leaves unspecified
EncodeField ==
    /\ cpc = "enc_fields"
    /\ \E key \in todo :
         LET binding == MapLookup(encoder.Fields, key, Nil)
         IN /\ todo' = todo \ {key}
            /\ IF MapLookup(encoder.OmitEmpties, key, FALSE) /\ IsEmpty(inst, binding)
               THEN UNCHANGED <<stream, first>>
               ELSE /\ stream' = stream \o
                         WritePair(first, "typed", key,
                                   MapLookup(inst.typed, Accessor(binding), "0"))
                    /\ first' = FALSE
    /\ UNCHANGED <<cpc, iter, inst, ap, read, input>>
    /\ UNCHANGED regVars

\* lines 259-267: after the typed fields, read the map from the instance
EncodeAPBegin ==
    /\ cpc = "enc_fields"
    /\ todo = {}
    /\ IF encoder.APBinding = Nil
       THEN /\ stream' = Append(stream, Ev("end", "", ""))
            /\ cpc' = "encoded"
            /\ todo' = {}
       ELSE /\ todo' = MapKeys(inst.ap.m)
            /\ cpc' = "enc_ap"
            /\ stream' = stream
    /\ UNCHANGED <<iter, inst, ap, read, input, first>>
    /\ UNCHANGED regVars

\* one iteration of the loop of lines 268-276
EncodeAP ==
    /\ cpc = "enc_ap"
    /\ \E k \in todo :
         /\ todo' = todo \ {k}
         /\ stream' = stream \o WritePair(first, "raw", k, MapLookup(inst.ap.m, k, ""))
         /\ first' = FALSE
    /\ UNCHANGED <<cpc, iter, inst, ap, read, input>>
    /\ UNCHANGED regVars

\* line 277
EncodeEnd ==
    /\ cpc = "enc_ap"
    /\ todo = {}
    /\ stream' = Append(stream, Ev("end", "", ""))
    /\ cpc' = "encoded"
    /\ UNCHANGED <<iter, inst, ap, read, input, todo, first>>
    /\ UNCHANGED regVars

CodecNext ==
    \/ DecodeBegin
    \/ DecodeStep
    \/ EncodeBegin
    \/ EncodeField
    \/ EncodeAPBegin
    \/ EncodeAP
    \/ EncodeEnd

CodecSpec == CodecInit /\ [][CodecNext]_vars

(***************************************************************************)
(* Properties of the registry                                              *)
(***************************************************************************)
Min(S) == CHOOSE x \in S : \A y \in S : x <= y
Max(S) == CHOOSE x \in S : \A y \in S : x >= y

Registered(t) == Desc[t] # NoDesc

\* positions of the fields of a declared list whose decode name is "*"
Stars(raw) == {i \in DOMAIN raw : raw[i].FromNames = <<"*">>}

\* a declared list without its first "*" field, everything else in place
ExpectedTyped(raw) ==
    IF Stars(raw) = {} THEN raw
    ELSE [i \in 1..(Len(raw) - 1) |-> IF i < Min(Stars(raw)) THEN raw[i] ELSE raw[i + 1]]

ExpectedAP(raw) == IF Stars(raw) = {} THEN Nil ELSE raw[Min(Stars(raw))]

C1_State ==
    \A t \in StructTypes :
        /\ removalPasses[t] = IF Registered(t) THEN 1 ELSE 0
        /\ Registered(t) =>
              heap[Desc[t]].Fields = ExpectedTyped(RawFields(decl, t))

C1_LaterCall ==
    \A p \in Callers :
        (pc[p] = "usd_check" /\ Registered(local[p].typ) /\ pc'[p] # "usd_check")
            => /\ Desc' = Desc
               /\ APBinding' = APBinding
               /\ removalPasses' = removalPasses
               /\ \A t \in StructTypes :
                     Registered(t) => heap'[Desc[t]] = heap[Desc[t]]

\* C1: however the callers of UpdateStructDescriptor interleave, the removal
\* pass runs exactly once per registered type (never for an unregistered one),
\* the registered field list is the declared list without its first wildcard
\* field, so no typed field vanished, and a later call for a registered type
\* returns leaving the registry and every registered descriptor as they were.
C1_OnePassPerType == [](C1_State) /\ [][C1_LaterCall]_vars

\* C1 witness: T with two wildcard fields is registered, and a later call for
\* T, holding a descriptor that still has both, is at the short-circuit test.
C1_Witness ==
    \E p \in Callers :
        /\ pc[p] = "usd_check"
        /\ local[p].typ = "T"
        /\ Registered("T")
        /\ local[p].desc # Desc["T"]
        /\ Cardinality(Stars(RawFields(decl, "T"))) = 2

\* C5 as stated: for every registered type, in every reachable state, the
\* ap-binding is the first declared field named "*", absent when there is
\* none, and the typed-field list is the declared list without that field.
C5_AsStated ==
    \A t \in StructTypes :
        Registered(t) =>
            /\ MapGet(APBinding, t) = ExpectedAP(RawFields(decl, t))
            /\ heap[Desc[t]].Fields = ExpectedTyped(RawFields(decl, t))

\* the types t embeds as anonymous fields
EmbeddedTypes(t) == {decl[t][i].Type : i \in {j \in DOMAIN decl[t] : decl[t][j].Anonymous}}

\* C5 amended: for every registered type the typed-field list is the declared
\* list without its first "*" field; the ap-binding is that field when the
\* type declares one, and otherwise is absent or the ap-binding of a type it
\* embeds (promoted by DecorateDecoder or DecorateEncoder).
C5_FirstWildcardExtracted ==
    \A t \in StructTypes :
        Registered(t) =>
            /\ heap[Desc[t]].Fields = ExpectedTyped(RawFields(decl, t))
            /\ Stars(RawFields(decl, t)) # {} =>
                  APBinding[t] = ExpectedAP(RawFields(decl, t))
            /\ Stars(RawFields(decl, t)) = {} =>
                  \/ MapGet(APBinding, t) = Nil
                  \/ \E e \in EmbeddedTypes(t) : APBinding[t] = APBinding[e]

\* C5 witness: T declares "*", a typed field and a second "*", and is
\* registered: the second wildcard field is still a typed field.
C5_Witness ==
    /\ Registered("T")
    /\ Len(decl["T"]) = 3
    /\ Stars(RawFields(decl, "T")) = {1, 3}
    /\ Len(heap[Desc["T"]].Fields) = 2

\* the binding a promotion should adopt: that of the first anonymous field, in
\* declaration order, whose type has a registered ap-binding
PromotionFrom(apb, fs) ==
    LET with == {i \in DOMAIN fs : fs[i].Anonymous /\ MapGet(apb, fs[i].Type) # Nil}
    IN IF with = {} THEN Nil ELSE apb[fs[Min(with)].Type]

\* C7: whenever a decorate call settles the ap-binding of a registered type
\* that declares no wildcard field (the only calls that write its entry), the
\* entry becomes the ap-binding of the first anonymous field whose embedded
\* type has one, and nil only when no embedded type has one.
C7_PromotionFirstMatch ==
    [][\A t \in StructTypes :
          (/\ Registered(t)
           /\ Stars(RawFields(decl, t)) = {}
           /\ APBinding'[t] # APBinding[t])
              => MapGet(APBinding', t) = PromotionFrom(APBinding, decl[t])]_vars

(***************************************************************************)
(* Properties of the codec                                                 *)
(***************************************************************************)
FieldSet == {TypedFields[i] : i \in DOMAIN TypedFields}

\* a key is in the schema when a typed field's decode name equals it under
\* case folding
InSchema(k) == \E b \in FieldSet : ToLower(b.FromNames[1]) = ToLower(k)

UnknownKeys(obj) == {obj[i][1] : i \in DOMAIN obj} \ {k \in Keys : InSchema(k)}

LastValue(obj, k) == obj[Max({i \in DOMAIN obj : obj[i][1] = k})][2]

DeclaresWildcard == Stars(RawFields(decl, "T")) # {}

\* C2: after Decode and then Encode of the same instance of a type declaring
\* an additional-properties field, every key of the input outside the schema
\* is written exactly once, with the value the input gave it.
C2_UnknownKeysRoundTrip ==
    (cpc = "encoded" /\ input.given /\ DeclaresWildcard) =>
        \A k \in UnknownKeys(input.obj) :
            /\ Cardinality({i \in DOMAIN stream :
                               stream[i].ev = "key" /\ stream[i].key = k}) = 1
            /\ \E i \in DOMAIN stream :
                  stream[i] = Ev("raw", k, LastValue(input.obj, k))

\* C3: every key the loop handled went to the typed field whose decode name
\* equals it exactly when there is one, else to a typed field whose decode
\* name equals it under case folding, else into the map under the key itself.
C3_KeyRouting ==
    \A i \in DOMAIN read :
        LET k == read[i].key
            exact == {b \in FieldSet : b.FromNames[1] = k}
            folded == {b \in FieldSet : ToLower(b.FromNames[1]) = ToLower(k)}
        IN IF exact # {} THEN read[i].to \in {Accessor(b) : b \in exact}
           ELSE IF folded # {} THEN read[i].to \in {Accessor(b) : b \in folded}
           ELSE read[i].to = <<"ap", 0>>

\* the field's tag carries the omitempty qualifier
MarkedOmitEmpty(b) ==
    LET f == decl[b.owner][b.idx]
    IN f.Tag.ok /\ \E j \in 2..Len(f.Tag.parts) : f.Tag.parts[j] = "omitempty"

HoldsEmpty(b) == MapLookup(inst.typed, Accessor(b), "0") = "0"

Written(kind, k) == \E i \in DOMAIN stream : stream[i].ev = kind /\ stream[i].key = k

\* C4: when Encode has returned, a typed field's key (fields of embedded types
\* included) is missing from the output exactly when the field is marked
\* omit-empty and holds its empty value, and every entry of the
\* additional-properties map is written.
C4_OmitEmpty ==
    cpc = "encoded" =>
        /\ \A b \in FieldSet :
              Written("typed", b.ToNames[1]) <=> ~(MarkedOmitEmpty(b) /\ HoldsEmpty(b))
        /\ \A k \in MapKeys(inst.ap.m) : Written("raw", k)

\* the typed keys of the output, in the order written
TypedKeysWritten ==
    LET Typed(e) == e.ev = "typed"
        evs == SelectSeq(stream, Typed)
    IN [i \in DOMAIN evs |-> evs[i].key]

\* the descriptor's typed fields that are not omitted, in descriptor order
TypedKeysDue ==
    LET Due(b) == ~(MarkedOmitEmpty(b) /\ HoldsEmpty(b))
        bs == SelectSeq(TypedFields, Due)
    IN [i \in DOMAIN bs |-> bs[i].ToNames[1]]

\* C6: Encode writes the typed fields in descriptor order, and every
\* additional-properties entry after all typed fields.
C6_DescriptorOrder ==
    cpc = "encoded" =>
        /\ TypedKeysWritten = TypedKeysDue
        /\ \A i, j \in DOMAIN stream :
              (stream[i].ev = "raw" /\ stream[j].ev = "typed") => j < i

\* C8: when Decode returns, its loop has handled every key/value pair of the
\* object once, in source order, and the iterator has none left.
C8_EveryPairRead ==
    cpc = "decoded" =>
        /\ iter = <<>>
        /\ [i \in DOMAIN read |-> <<read[i].key, read[i].val>>] = input.obj

\* start, then key/value pairs joined by single separators, then end
WellFormed(s) ==
    /\ Len(s) >= 2
    /\ s[1].ev = "start"
    /\ s[Len(s)].ev = "end"
    /\ (Len(s) - 2) % 3 = IF Len(s) = 2 THEN 0 ELSE 2
    /\ \A i \in 2..(Len(s) - 1) :
          CASE (i - 1) % 3 = 1 -> s[i].ev = "key"
            [] (i - 1) % 3 = 2 -> s[i].ev \in {"typed", "raw"} /\ s[i].key = s[i - 1].key
            [] OTHER -> s[i].ev = "more"

\* C9: what Encode wrote is one object-start, the emitted pairs (typed fields
\* and map entries together) with one separator before each but the first and
\* none elsewhere, and one object-end.
C9_Separators ==
    cpc = "encoded" =>
        /\ WellFormed(stream)
        /\ \A k \in MapKeys(inst.ap.m) :
              Cardinality({i \in DOMAIN stream :
                              stream[i].ev = "raw" /\ stream[i].key = k}) = 1

\* C9 witness: the only typed field is omitted, so the first pair written is a
\* map entry, and a second map entry follows a separator.
C9_Witness ==
    /\ cpc = "encoded"
    /\ FieldSet # {}
    /\ \A b \in FieldSet : MarkedOmitEmpty(b) /\ HoldsEmpty(b)
    /\ Len(stream) = 7
    /\ stream[4].ev = "more"

\* C10: when Decode returns, the instance's map is the one this call made and
\* holds exactly the unknown keys of the object, each with the fragment of
\* its last occurrence (so it is empty, not nil, without unknown keys).
C10_FreshMap ==
    cpc = "decoded" =>
        inst.ap = MakeMap({<<k, LastValue(input.obj, k)>> : k \in UnknownKeys(input.obj)})

====
